---- MODULE Spec2Model ----
(* A model of the rcsubstring crate (src/src/lib.rs): RcSubstring, a pair of *)
(* an Rc<String> and a byte range, with its constructor, its Deref to str   *)
(* and the operations built on it, plus the WordIterator of the crate       *)
(* documentation. Text is a sequence of UTF-8 bytes.                        *)
EXTENDS Integers, Sequences, FiniteSets, TLC

VARIABLES debug_assertions, values, text, heap, handles, it, views, yielded, released, last

vars == <<debug_assertions, values, text, heap, handles, it, views, yielded, released, last>>

(* ---------------------------------------------------------------- bounds *)
MaxChars == 3      \* characters in a text of Spec
MaxOver == 1       \* how far past the end of the text an offset is drawn
MaxViews == 2      \* views held at once in SpecShare
MaxHandles == 2    \* plain Rc handles held at once in SpecShare
MaxValues == 2     \* length of the argument of generate_text in SpecIter

(* ------------------------------------------------------------ text, UTF-8 *)
Space == 32

\* the characters the texts of Spec are made of: "a" and the two-byte "e-acute"
Chars == {<<97>>, <<195, 169>>}

RECURSIVE TextsOf(_)
TextsOf(n) ==
    IF n = 0 THEN {<<>>}
    ELSE LET shorter == TextsOf(n - 1)
         IN  shorter \cup {t \o c : t \in shorter, c \in Chars}

Texts == TextsOf(MaxChars)

\* a UTF-8 continuation byte, 0x80..0xBF
IsContinuation(byte) == byte >= 128 /\ byte < 192

is_char_boundary(s, index) ==
    IF index = 0 THEN TRUE
    ELSE IF index >= Len(s) THEN index = Len(s)
    ELSE ~IsContinuation(s[index + 1])

(* -------------------------------------------------------------- outcomes *)
NoStr == <<>>

Ok(str, num, flag) == [kind |-> "ok", by |-> "", msg |-> "", str |-> str, num |-> num, flag |-> flag]
OkStr(str) == Ok(str, Len(str), FALSE)
OkUnit == Ok(NoStr, 0, FALSE)
None == [kind |-> "none", by |-> "", msg |-> "", str |-> NoStr, num |-> 0, flag |-> FALSE]
Panic(by, msg) == [kind |-> "panic", by |-> by, msg |-> msg, str |-> NoStr, num |-> 0, flag |-> FALSE]
Dangling == [kind |-> "dangling", by |-> "", msg |-> "", str |-> NoStr, num |-> 0, flag |-> FALSE]

\* &s[a..b] of str: the slice, or the panic of str's own slicing
StrIndex(s, a, b) ==
    IF a <= b /\ is_char_boundary(s, a) /\ is_char_boundary(s, b)
    THEN OkStr(SubSeq(s, a + 1, b))
    ELSE Panic("str", "slice")

(* --------------------------------------------------------- Rc<String> cell *)
\* one strong reference given up: the String is freed when the count reaches 0
DropStrong(cell) ==
    IF cell.strong = 1
    THEN [alloc |-> FALSE, data |-> NoStr, strong |-> 0]
    ELSE [cell EXCEPT !.strong = cell.strong - 1]

CloneStrong(cell) == [cell EXCEPT !.strong = cell.strong + 1]

Freed(cell) == IF cell.strong = 1 THEN 1 ELSE 0

(* ------------------------------------------------------------ RcSubstring *)
RcSubstring(start, end) == [start |-> start, end |-> end]

NoView == RcSubstring(0, 0)

\* mutant: the end bound is not checked
NewCheck_NoEndCheck(len, start, end) ==
    IF ~debug_assertions THEN ""
    ELSE IF ~(end >= start) THEN "begin < end when creating RcSubstring"
    ELSE IF ~(start <= len) THEN "start index out of bounds when creating RcSubstring"
    ELSE ""

\* mutant: the start bound is strict
NewCheck_StrictStart(len, start, end) ==
    IF ~debug_assertions THEN ""
    ELSE IF ~(end >= start) THEN "begin < end when creating RcSubstring"
    ELSE IF ~(start < len) THEN "start index out of bounds when creating RcSubstring"
    ELSE IF ~(end <= len) THEN "end index out of bounds when creating RcSubstring"
    ELSE ""

\* mutant: the checks are assert!, present in every build
NewCheck_AlwaysOn(len, start, end) ==
    IF ~(end >= start) THEN "begin < end when creating RcSubstring"
    ELSE IF ~(start <= len) THEN "start index out of bounds when creating RcSubstring"
    ELSE IF ~(end <= len) THEN "end index out of bounds when creating RcSubstring"
    ELSE ""

\* the three debug_assert! of new, in order; "" when all pass or are compiled out
NewCheck(len, start, end) ==
    IF ~debug_assertions THEN ""
    ELSE IF ~(end >= start) THEN "begin < end when creating RcSubstring"
    ELSE IF ~(start <= len) THEN "start index out of bounds when creating RcSubstring"
    ELSE IF ~(end <= len) THEN "end index out of bounds when creating RcSubstring"
    ELSE ""

\* mutant: the slice starts at the beginning of the buffer
Deref_FromZero(v) ==
    IF ~heap.alloc THEN Dangling
    ELSE StrIndex(heap.data, 0, v.end)

\* &self.rcstring[self.range.start..self.range.end]
Deref(v) ==
    IF ~heap.alloc THEN Dangling
    ELSE StrIndex(heap.data, v.start, v.end)

Record(op, v, a, b, s, res) == [op |-> op, view |-> v, a |-> a, b |-> b, s |-> s, res |-> res]

Running == last.res.kind # "panic"

RemoveAt(seq, i) == SubSeq(seq, 1, i - 1) \o SubSeq(seq, i + 1, Len(seq))

(* ---------------------------------------------------------------- actions *)
\* Rc::clone(&handle)
RcClone ==
    /\ Running
    /\ handles > 0
    /\ handles < MaxHandles
    /\ handles' = handles + 1
    /\ heap' = CloneStrong(heap)
    /\ last' = Record("clone", NoView, 0, 0, NoStr, OkUnit)
    /\ UNCHANGED <<debug_assertions, values, text, it, views, yielded, released>>

\* drop(handle)
RcDrop ==
    /\ Running
    /\ handles > 0
    /\ handles' = handles - 1
    /\ heap' = DropStrong(heap)
    /\ released' = released + Freed(heap)
    /\ last' = Record("drop", NoView, 0, 0, NoStr, OkUnit)
    /\ UNCHANGED <<debug_assertions, values, text, it, views, yielded>>

\* mutant: the view does not own the handle it was given
new_Borrowing(start, end) ==
    /\ Running
    /\ handles > 0
    /\ Len(views) < MaxViews
    /\ handles' = handles - 1
    /\ heap' = DropStrong(heap)
    /\ released' = released + Freed(heap)
    /\ LET failed == NewCheck(Len(heap.data), start, end)
       IN  IF failed # ""
           THEN /\ views' = views
                /\ last' = Record("new", RcSubstring(start, end), 0, 0, NoStr,
                                  Panic("RcSubstring", failed))
           ELSE /\ views' = Append(views, RcSubstring(start, end))
                /\ last' = Record("new", RcSubstring(start, end), 0, 0, NoStr, OkUnit)
    /\ UNCHANGED <<debug_assertions, values, text, it, yielded>>

\* mutant: the constructor borrows the handle and clones it
new_Cloning(start, end) ==
    /\ Running
    /\ handles > 0
    /\ Len(views) < MaxViews
    /\ LET failed == NewCheck(Len(heap.data), start, end)
       IN  IF failed # ""
           THEN /\ views' = views
                /\ heap' = heap
                /\ last' = Record("new", RcSubstring(start, end), 0, 0, NoStr,
                                  Panic("RcSubstring", failed))
           ELSE /\ views' = Append(views, RcSubstring(start, end))
                /\ heap' = CloneStrong(heap)
                /\ last' = Record("new", RcSubstring(start, end), 0, 0, NoStr, OkUnit)
    /\ UNCHANGED <<debug_assertions, values, text, handles, it, yielded, released>>

\* RcSubstring::new(handle, start..end): the handle is moved in; a failed
\* debug_assert! unwinds and drops it
new(start, end) ==
    /\ Running
    /\ handles > 0
    /\ Len(views) < MaxViews
    /\ handles' = handles - 1
    /\ LET failed == NewCheck(Len(heap.data), start, end)
       IN  IF failed # ""
           THEN /\ heap' = DropStrong(heap)
                /\ released' = released + Freed(heap)
                /\ views' = views
                /\ last' = Record("new", RcSubstring(start, end), 0, 0, NoStr,
                                  Panic("RcSubstring", failed))
           ELSE /\ views' = Append(views, RcSubstring(start, end))
                /\ last' = Record("new", RcSubstring(start, end), 0, 0, NoStr, OkUnit)
                /\ UNCHANGED <<heap, released>>
    /\ UNCHANGED <<debug_assertions, values, text, it, yielded>>

\* drop(view): drops its rcstring field
DropView(i) ==
    /\ Running
    /\ i \in 1..Len(views)
    /\ views' = RemoveAt(views, i)
    /\ heap' = DropStrong(heap)
    /\ released' = released + Freed(heap)
    /\ last' = Record("drop_view", views[i], 0, 0, NoStr, OkUnit)
    /\ UNCHANGED <<debug_assertions, values, text, handles, it, yielded>>

\* *view
deref(i) ==
    /\ Running
    /\ i \in 1..Len(views)
    /\ last' = Record("deref", views[i], 0, 0, NoStr, Deref(views[i]))
    /\ UNCHANGED <<debug_assertions, values, text, heap, handles, it, views, yielded, released>>

\* format!("{}", view)
fmt(i) ==
    /\ Running
    /\ i \in 1..Len(views)
    /\ last' = Record("fmt", views[i], 0, 0, NoStr, Deref(views[i]))
    /\ UNCHANGED <<debug_assertions, values, text, heap, handles, it, views, yielded, released>>

\* view.as_ref()
as_ref(i) ==
    /\ Running
    /\ i \in 1..Len(views)
    /\ last' = Record("as_ref", views[i], 0, 0, NoStr, Deref(views[i]))
    /\ UNCHANGED <<debug_assertions, values, text, heap, handles, it, views, yielded, released>>

\* view == other
EqResult(v, other) ==
    LET d == Deref(v)
    IN  IF d.kind = "ok" THEN Ok(NoStr, 0, d.str = other) ELSE d

\* the strings a view is compared with
Probes(v) ==
    {<<>>, <<97>>} \cup
    (IF v.start <= v.end /\ v.end <= Len(heap.data)
     THEN {SubSeq(heap.data, v.start + 1, v.end)} ELSE {})

eq(i, other) ==
    /\ Running
    /\ i \in 1..Len(views)
    /\ last' = Record("eq", views[i], 0, 0, other, EqResult(views[i], other))
    /\ UNCHANGED <<debug_assertions, values, text, heap, handles, it, views, yielded, released>>

\* view.len()
LenResult(v) ==
    LET d == Deref(v)
    IN  IF d.kind = "ok" THEN Ok(NoStr, Len(d.str), FALSE) ELSE d

len(i) ==
    /\ Running
    /\ i \in 1..Len(views)
    /\ last' = Record("len", views[i], 0, 0, NoStr, LenResult(views[i]))
    /\ UNCHANGED <<debug_assertions, values, text, heap, handles, it, views, yielded, released>>

\* mutant: the sub-range is applied to the buffer, not to the window
IndexResult_Unbounded(v, a, b) ==
    LET d == Deref(v)
    IN  IF d.kind = "ok" THEN StrIndex(heap.data, v.start + a, v.start + b) ELSE d

\* &view[a..b]
IndexResult(v, a, b) ==
    LET d == Deref(v)
    IN  IF d.kind = "ok" THEN StrIndex(d.str, a, b) ELSE d

index(i, a, b) ==
    /\ Running
    /\ i \in 1..Len(views)
    /\ last' = Record("index", views[i], a, b, NoStr, IndexResult(views[i], a, b))
    /\ UNCHANGED <<debug_assertions, values, text, heap, handles, it, views, yielded, released>>

Offsets == 0..(Len(heap.data) + MaxOver)

Init ==
    /\ debug_assertions \in BOOLEAN
    /\ values = <<>>
    /\ text \in Texts
    /\ heap = [alloc |-> TRUE, data |-> text, strong |-> 1]
    /\ handles = 1
    /\ it = [live |-> FALSE, start_pos |-> 0]
    /\ views = <<>>
    /\ yielded = <<>>
    /\ released = 0
    /\ last = Record("rc_new", NoView, 0, 0, NoStr, OkUnit)

\* one buffer, one view built from its handle, and every operation on the view
Next ==
    \/ RcDrop
    \/ \E start \in Offsets, end \in Offsets : new(start, end)
    \/ \E i \in 1..Len(views) : DropView(i)
    \/ \E i \in 1..Len(views) : deref(i)
    \/ \E i \in 1..Len(views) : fmt(i)
    \/ \E i \in 1..Len(views) : as_ref(i)
    \/ \E i \in 1..Len(views) : \E other \in Probes(views[i]) : eq(i, other)
    \/ \E i \in 1..Len(views) : len(i)
    \/ \E i \in 1..Len(views) : \E a \in Offsets, b \in Offsets : index(i, a, b)

Spec == Init /\ [][Next]_vars

\* the ranges views are built over when the buffer is shared: from the start
\* or from offset 1, up to offset 1, the end of the text, or past the end
ShareRanges ==
    {RcSubstring(start, end) : start \in {0, 1},
                               end \in {1, Len(text), Len(text) + MaxOver}}

\* one buffer shared by cloned handles and several views
NextShare ==
    \/ RcClone
    \/ RcDrop
    \/ \E r \in ShareRanges : new(r.start, r.end)
    \/ \E i \in 1..Len(views) : DropView(i)
    \/ \E i \in 1..Len(views) : deref(i)

SpecShare == Init /\ [][NextShare]_vars

(* ----------------------------------------------------------- WordIterator *)
\* "zero", "one", "two", "three", "four", "five"
words == << <<122, 101, 114, 111>>, <<111, 110, 101>>, <<116, 119, 111>>,
            <<116, 104, 114, 101, 101>>, <<102, 111, 117, 114>>, <<102, 105, 118, 101>> >>

RECURSIVE generate_text(_)
generate_text(vals) ==
    IF vals = <<>> THEN <<>>
    ELSE words[Head(vals) + 1] \o <<Space>> \o generate_text(Tail(vals))

\* vec![2, 3, 1, 0, 5]
DocValues == <<2, 3, 1, 0, 5>>

RECURSIVE ValueSeqs(_)
ValueSeqs(n) ==
    IF n = 0 THEN {<<>>}
    ELSE LET shorter == ValueSeqs(n - 1)
         IN  shorter \cup {Append(v, w) : v \in shorter, w \in 0..(Len(words) - 1)}

\* s[from..].find(" "), as an offset into s; -1 for None
Find(s, from) ==
    LET hits == {p \in from..(Len(s) - 1) : s[p + 1] = Space}
    IN  IF hits = {} THEN -1 ELSE CHOOSE p \in hits : \A q \in hits : p <= q

\* mutant: the delimiter is not skipped
AfterDelimiter_Same(pos) == pos

\* self.start_pos = pos + 1
AfterDelimiter(pos) == pos + 1

\* WordIterator::next
next ==
    /\ Running
    /\ it.live
    /\ IF ~heap.alloc
       THEN /\ last' = Record("next", NoView, 0, 0, NoStr, Dangling)
            /\ UNCHANGED <<it, views, yielded>>
       ELSE IF ~is_char_boundary(heap.data, it.start_pos)
       THEN /\ last' = Record("next", NoView, 0, 0, NoStr, Panic("str", "slice"))
            /\ UNCHANGED <<it, views, yielded>>
       ELSE LET pos == Find(heap.data, it.start_pos)
                value == RcSubstring(it.start_pos, pos)
                failed == NewCheck(Len(heap.data), it.start_pos, pos)
            IN  IF pos = -1
                THEN /\ last' = Record("next", NoView, 0, 0, NoStr, None)
                     /\ UNCHANGED <<it, views, yielded>>
                ELSE IF failed # ""
                THEN /\ last' = Record("next", value, 0, 0, NoStr, Panic("RcSubstring", failed))
                     /\ UNCHANGED <<it, views, yielded>>
                ELSE /\ views' = Append(views, value)
                     /\ yielded' = Append(yielded, value)
                     /\ it' = [it EXCEPT !.start_pos = AfterDelimiter(pos)]
                     /\ last' = Record("next", value, 0, 0, NoStr, OkUnit)
    /\ heap' = IF Len(views') > Len(views) THEN CloneStrong(heap) ELSE heap
    /\ UNCHANGED <<debug_assertions, values, text, handles, released>>

\* drop(it): drops its rcstring field
DropIt ==
    /\ Running
    /\ it.live
    /\ it' = [it EXCEPT !.live = FALSE]
    /\ heap' = DropStrong(heap)
    /\ released' = released + Freed(heap)
    /\ last' = Record("drop_it", NoView, 0, 0, NoStr, OkUnit)
    /\ UNCHANGED <<debug_assertions, values, text, handles, views, yielded>>

\* give_me_an_iterator()
InitIter ==
    /\ debug_assertions \in BOOLEAN
    /\ values \in ValueSeqs(MaxValues) \cup {DocValues}
    /\ text = generate_text(values)
    /\ heap = [alloc |-> TRUE, data |-> text, strong |-> 1]
    /\ handles = 0
    /\ it = [live |-> TRUE, start_pos |-> 0]
    /\ views = <<>>
    /\ yielded = <<>>
    /\ released = 0
    /\ last = Record("rc_new", NoView, 0, 0, NoStr, OkUnit)

NextIter ==
    \/ next
    \/ DropIt
    \/ \E i \in 1..Len(views) : DropView(i)
    \/ \E i \in 1..Len(views) : deref(i)
    \/ \E i \in 1..Len(views) : \E other \in Probes(views[i]) : eq(i, other)

SpecIter == InitIter /\ [][NextIter]_vars

(* ------------------------------------------------------------ vocabulary *)
Valid(v) == v.start <= v.end /\ v.end <= Len(text)
Malformed(v) == v.start > v.end \/ v.start > Len(text) \/ v.end > Len(text)
Aligned(v) == is_char_boundary(text, v.start) /\ is_char_boundary(text, v.end)
Bytes(v) == SubSeq(text, v.start + 1, v.end)
ContentReads == {"deref", "fmt", "as_ref"}
Reads == ContentReads \cup {"eq", "len"}
Holders == handles + Len(views) + (IF it.live THEN 1 ELSE 0)
LastView == views[Len(views)]

C2_ConstructionRejects ==
    debug_assertions =>
      /\ (last.op = "new" /\ Malformed(last.view)) =>
            /\ last.res.kind = "panic"
            /\ last.res.by = "RcSubstring"
            /\ last.res.msg =
                  (IF last.view.start > last.view.end
                   THEN "begin < end when creating RcSubstring"
                   ELSE IF last.view.start > Len(text)
                   THEN "start index out of bounds when creating RcSubstring"
                   ELSE "end index out of bounds when creating RcSubstring")
      /\ \A i \in 1..Len(views) : ~Malformed(views[i])
      /\ (last.op \in Reads \cup {"index"}) => ~Malformed(last.view)
      /\ (last.res.kind = "panic" /\ last.res.by = "RcSubstring") =>
            /\ last.op = "new"
            /\ Malformed(last.view)

C2_Witness ==
    /\ debug_assertions
    /\ last.op = "new"
    /\ last.view.start <= last.view.end
    /\ last.view.start <= Len(text)
    /\ last.view.end > Len(text)
    /\ last.res.kind = "panic"
    /\ views = <<>>
\* C3: while a view is live the buffer has not been released, whatever
\* handles have been dropped, and reading the view gives the slice
\* [start, end) of the text the buffer was created with.
C3_ViewKeepsBufferAlive ==
    \A i \in 1..Len(views) :
        /\ heap.alloc
        /\ released = 0
        /\ heap.data = text
        /\ Deref(views[i]) = StrIndex(text, views[i].start, views[i].end)
        /\ (Valid(views[i]) /\ Aligned(views[i])) =>
              /\ Deref(views[i]).kind = "ok"
              /\ Deref(views[i]).str = Bytes(views[i])

C3_Witness ==
    /\ handles = 0
    /\ heap.strong = 1
    /\ Len(views) = 1
    /\ last.op = "deref"
    /\ last.view.start < last.view.end
    /\ last.res.kind = "ok"
    /\ last.res.str = Bytes(last.view)

\* C4 as stated, for the comparison the crate implements (view == &str): for
\* every view built from a range within bounds, view == s returns whether
\* the bytes [start, end) of the buffer equal s.
C4_EqIsContentEquality ==
    (last.op = "eq" /\ Valid(last.view)) =>
        /\ last.res.kind = "ok"
        /\ last.res.flag = (Bytes(last.view) = last.s)

\* C5: over a text of words each followed by a space, WordIterator yields
\* the words in order, one view per word with the word's bytes, returns None
\* exactly when every word has been yielded, never panics, and every live
\* view keeps its content, also after the iterator is dropped.
C5_IteratorYieldsWords ==
    /\ Len(yielded) <= Len(values)
    /\ \A k \in 1..Len(yielded) :
          /\ Valid(yielded[k])
          /\ Bytes(yielded[k]) = words[values[k] + 1]
    /\ (last.op = "next" /\ last.res.kind = "ok") => last.view = yielded[Len(yielded)]
    /\ (last.op = "next" /\ last.res.kind = "none") => Len(yielded) = Len(values)
    /\ (last.op = "next") => last.res.kind \in {"ok", "none"}
    /\ \A i \in 1..Len(views) :
          /\ \E k \in 1..Len(yielded) : yielded[k] = views[i]
          /\ heap.alloc
          /\ Deref(views[i]).kind = "ok"
          /\ Deref(views[i]).str = Bytes(views[i])
    /\ (last.op = "deref") =>
          /\ last.res.kind = "ok"
          /\ last.res.str = Bytes(last.view)
    /\ (last.op = "eq") =>
          /\ last.res.kind = "ok"
          /\ last.res.flag = (Bytes(last.view) = last.s)

C5_Witness ==
    /\ values = DocValues
    /\ Len(yielded) = 5
    /\ [k \in 1..5 |-> Bytes(yielded[k])] = <<words[3], words[4], words[2], words[1], words[6]>>
    /\ ~it.live
    /\ handles = 0
    /\ Len(views) = 1
    /\ last.op = "eq"
    /\ last.s = words[6]
    /\ last.res.kind = "ok"
    /\ last.res.flag

C7_NoReadFails ==
    (last.op \in Reads /\ Valid(last.view)) => last.res.kind = "ok"

\* C8: in a build without debug assertions, new with a malformed range
\* succeeds and returns the view, every read of a malformed view panics in
\* str's own slicing, and no malformed view is ever read successfully.
C8_ReleaseDefersFailure ==
    ~debug_assertions =>
      /\ (last.op = "new") =>
            /\ last.res.kind = "ok"
            /\ Len(views) > 0
            /\ LastView = last.view
      /\ (last.op \in Reads \cup {"index"} /\ Malformed(last.view)) =>
            last.res = Panic("str", "slice")
      /\ \A i \in 1..Len(views) :
            Malformed(views[i]) => Deref(views[i]) = Panic("str", "slice")

C8_Witness ==
    /\ ~debug_assertions
    /\ last.op = "deref"
    /\ last.view.start <= last.view.end
    /\ last.view.end > Len(text)
    /\ last.res = Panic("str", "slice")

\* C9 as stated: for a view with start <= end <= length and every
\* a <= b <= end - start, view[a..b] is the bytes [start+a, start+b) of the
\* buffer, and every other sub-range fails.
C9_Original ==
    (last.op = "index" /\ Valid(last.view)) =>
        IF last.a <= last.b /\ last.b <= last.view.end - last.view.start
        THEN last.res = OkStr(SubSeq(text, last.view.start + last.a + 1,
                                     last.view.start + last.b))
        ELSE last.res.kind = "panic"

\* C9 as amended: for a view with start <= end <= length, view[a..b] is the
\* bytes [start+a, start+b) of the buffer when a <= b <= end - start and
\* start, end, start+a and start+b are all char boundaries of the buffer; in
\* every other case, b > end - start with start+b inside the buffer included,
\* it panics in str's slicing.
C9_Amended ==
    (last.op = "index" /\ Valid(last.view)) =>
        IF /\ last.a <= last.b
           /\ last.b <= last.view.end - last.view.start
           /\ Aligned(last.view)
           /\ is_char_boundary(text, last.view.start + last.a)
           /\ is_char_boundary(text, last.view.start + last.b)
        THEN /\ last.res.kind = "ok"
             /\ last.res.str = SubSeq(text, last.view.start + last.a + 1,
                                      last.view.start + last.b)
        ELSE last.res = Panic("str", "slice")

C9_Witness ==
    /\ last.op = "index"
    /\ Valid(last.view)
    /\ last.view.start > 0
    /\ last.a > 0
    /\ last.a < last.b
    /\ last.res.kind = "ok"
    /\ last.res.str # <<>>
    /\ last.res.str = SubSeq(text, last.view.start + last.a + 1, last.view.start + last.b)

\* C10 as stated, its first part: every construction of a view increments
\* the buffer's strong count by one.
C10_Original ==
    [][Len(views') = Len(views) + 1 => heap'.strong = heap.strong + 1]_vars

\* C10 as amended: new takes over the handle it is given, so a construction
\* leaves the strong count unchanged (one handle fewer, one view more) and
\* the increment by one is Rc::clone's; the count always equals the number
\* of live holders (handles, views, iterator), and the storage is released
\* exactly once, by the drop of the last holder and not before.
C10_Amended ==
    /\ [](/\ heap.strong = Holders
          /\ heap.alloc = (Holders > 0)
          /\ released = (IF Holders = 0 THEN 1 ELSE 0))
    /\ [][/\ (Len(views') = Len(views) + 1 /\ last'.op = "new") =>
               /\ heap'.strong = heap.strong
               /\ handles' = handles - 1
          /\ (handles' = handles + 1) => heap'.strong = heap.strong + 1
          /\ (released' # released) =>
               /\ released' = released + 1
               /\ heap.strong = 1
               /\ Holders = 1
               /\ Holders' = 0]_vars

C10_Witness ==
    /\ released = 1
    /\ ~heap.alloc
    /\ last.op = "drop_view"
    /\ handles = 0
    /\ views = <<>>
====
